---- MODULE Spec2Model ----
(***************************************************************************)
(* Model of the image upscaler API (app.py): the POST /upscale handler,    *)
(* its upload validator, the scratch directory temp_uploads and the        *)
(* exception translation of the handler's except clauses.                  *)
(*                                                                         *)
(* A Python str is a sequence of one-character strings, so that lower()    *)
(* and split('.') are computed character by character.  Multi-character    *)
(* strings inside a sequence stand for opaque tokens (a directory name, a  *)
(* uuid).  The bytes of an upload are a named body of a given length; a    *)
(* copy of a stream is the slice of the body from the read cursor to the   *)
(* end.                                                                    *)
(***************************************************************************)
EXTENDS Integers, Sequences, FiniteSets, TLC

\* Number of requests the model lets arrive.
MaxRequests == 2

Requests == 1..MaxRequests

------------------------------------------------------------------------------
\* Constants of app.py

MAX_FILE_SIZE_MB == 20

MAX_FILE_SIZE_BYTES == MAX_FILE_SIZE_MB * 1024 * 1024

TEMP_UPLOAD_DIR == <<"temp_uploads">>

ALLOWED_IMAGE_TYPES ==
    { <<"i","m","a","g","e","/","j","p","e","g">>,
      <<"i","m","a","g","e","/","p","n","g">>,
      <<"i","m","a","g","e","/","j","p","g">>,
      <<"i","m","a","g","e","/","w","e","b","p">> }

\* Python's None, for a header or a filename the client did not send.
None == <<"None">>

------------------------------------------------------------------------------
\* str.lower(), str.split('.')[-1], os.path.join, os.path.dirname

UpperChars ==
    <<"A","B","C","D","E","F","G","H","I","J","K","L","M",
      "N","O","P","Q","R","S","T","U","V","W","X","Y","Z">>

LowerChars ==
    <<"a","b","c","d","e","f","g","h","i","j","k","l","m",
      "n","o","p","q","r","s","t","u","v","w","x","y","z">>

LowerChar(c) ==
    IF \E i \in 1..Len(UpperChars) : UpperChars[i] = c
    THEN LowerChars[CHOOSE i \in 1..Len(UpperChars) : UpperChars[i] = c]
    ELSE c

Lower(s) == [i \in 1..Len(s) |-> LowerChar(s[i])]

Positions(s, c) == { i \in 1..Len(s) : s[i] = c }

MaxOf(S) == CHOOSE x \in S : \A y \in S : y <= x

\* s.split(c)[-1]: what follows the last c, or all of s when it holds no c.
LastSegment(s, c) ==
    IF Positions(s, c) = {} THEN s
    ELSE SubSeq(s, MaxOf(Positions(s, c)) + 1, Len(s))

\* os.path.join(d, name), for a relative name
PathJoin(d, name) == d \o <<"/">> \o name

\* os.path.dirname(p)
Dirname(p) ==
    IF Positions(p, "/") = {} THEN <<>>
    ELSE SubSeq(p, 1, MaxOf(Positions(p, "/")) - 1)

------------------------------------------------------------------------------
\* Exceptions and responses

NoExc == [type |-> "", status_code |-> 0, detail |-> ""]

HTTPException(status, detail) ==
    [type |-> "HTTPException", status_code |-> status, detail |-> detail]

\* An exception that is not an HTTPException; detail is str(e).
PyException(type, message) ==
    [type |-> type, status_code |-> 0, detail |-> message]

IsHTTPException(e) == e.type = "HTTPException"

TypeErrorDetail == "Invalid file type. Only JPEG, PNG, JPG, and WEBP are allowed."

SizeErrorDetail == "File size exceeds the 20 MB limit."

MissingOutputDetail == "Upscaling failed: output file not found."

InternalErrorDetail == "Internal server error"

\* The response the framework sends for a raised HTTPException.
ErrorResponse(e) ==
    [status |-> e.status_code, detail |-> e.detail, media_type |-> "application/json",
     filename |-> <<>>, path |-> <<>>]

\* FileResponse(path, media_type=..., filename=...)
FileResponse(path, media_type, filename) ==
    [status |-> 200, detail |-> "", media_type |-> media_type,
     filename |-> filename, path |-> path]

------------------------------------------------------------------------------
\* Uploads: the request bodies the model sends

\* The length in bytes of each upload body.
BodySize(b) ==
    CASE b = "under" -> MAX_FILE_SIZE_BYTES - 1
      [] b = "exact" -> MAX_FILE_SIZE_BYTES
      [] b = "over"  -> MAX_FILE_SIZE_BYTES + 1

CT_gif == <<"i","m","a","g","e","/","g","i","f">>

CT_png == <<"i","m","a","g","e","/","p","n","g">>

CT_JPEG == <<"I","M","A","G","E","/","J","P","E","G">>

CT_WebP == <<"I","m","a","g","e","/","W","e","b","P">>

FN_png == <<"a",".","p","n","g">>

FN_nodot == <<"a">>

FN_slash == <<"a",".","b","/","c">>

FN_dots == <<"a",".","b",".","j","p","g">>

\* An UploadFile: the declared content type, the client's filename, the body
\* and the read cursor of file.file when the handler gets it.
Upload(ct, fn, b, p) == [content_type |-> ct, filename |-> fn, body |-> b, pos |-> p]

Uploads ==
    { Upload(None,    FN_png,   "under", 0),
      Upload(<<>>,    None,     "over",  0),
      Upload(CT_gif,  FN_slash, "exact", BodySize("exact")),
      Upload(CT_png,  FN_png,   "under", 0),
      Upload(CT_JPEG, FN_dots,  "exact", BodySize("exact")),
      Upload(CT_png,  FN_png,   "over",  0),
      Upload(CT_png,  None,     "under", 0),
      Upload(CT_png,  FN_slash, "under", 0),
      Upload(CT_WebP, FN_nodot, "under", 1) }

NoUpload == Upload(None, None, "under", 0)

------------------------------------------------------------------------------
\* file.file: seek and tell

SEEK_SET == 0

SEEK_END == 2

\* file.seek(offset, whence) on a stream over body b: the new cursor
Seek(b, offset, whence) ==
    IF whence = SEEK_END THEN BodySize(b) + offset ELSE offset

\* shutil.copyfileobj(src, dst): the bytes of b from the cursor to the end
CopyFileObj(b, p) == [body |-> b, from |-> p, to |-> BodySize(b)]

------------------------------------------------------------------------------
\* validate_image_file

\* The looser check: any declared type that starts with image/ is taken.
TypeRejectedByPrefix(ct) ==
    \/ ct = None
    \/ ct = <<>>
    \/ Len(ct) < 6
    \/ SubSeq(Lower(ct), 1, 6) # <<"i","m","a","g","e","/">>

TypeRejected(ct) ==
    \/ ct = None
    \/ ct = <<>>
    \/ Lower(ct) \notin ALLOWED_IMAGE_TYPES

\* The ceiling itself rejected too.
SizeRejectedAtCeiling(size) == size >= MAX_FILE_SIZE_BYTES

SizeRejected(size) == size > MAX_FILE_SIZE_BYTES

\* validate_image_file without its file.file.seek(0): the cursor stays at the end.
validate_without_rewind(u, p) ==
    IF TypeRejected(u.content_type)
    THEN [exc |-> HTTPException(400, TypeErrorDetail), pos |-> p]
    ELSE LET atEnd == Seek(u.body, 0, SEEK_END)
         IN  IF SizeRejected(atEnd)
             THEN [exc |-> HTTPException(400, SizeErrorDetail), pos |-> atEnd]
             ELSE [exc |-> NoExc, pos |-> atEnd]

\* The exception validate_image_file raises (NoExc when it returns) and the
\* read cursor it leaves, for upload u with the cursor at p.
validate_image_file(u, p) ==
    IF TypeRejected(u.content_type)
    THEN [exc |-> HTTPException(400, TypeErrorDetail), pos |-> p]
    ELSE LET atEnd == Seek(u.body, 0, SEEK_END)
             size  == atEnd
             back  == Seek(u.body, 0, SEEK_SET)
         IN  IF SizeRejected(size)
             THEN [exc |-> HTTPException(400, SizeErrorDetail), pos |-> back]
             ELSE [exc |-> NoExc, pos |-> back]

------------------------------------------------------------------------------
\* State

VARIABLES
    pc,        \* pc[r]: where request r's handler stands
    upload,    \* upload[r]: the UploadFile of request r
    pos,       \* pos[r]: the read cursor of upload[r].file
    exc,       \* exc[r]: the exception request r raised (NoExc: none)
    temp_path, \* temp_path[r]: the path the handler saves the upload to
    output,    \* output[r]: the path the pipeline returned
    trace,     \* trace[r]: the handler stages request r has run, in order
    calls,     \* calls[r]: the paths request r has passed to the pipeline
    responses, \* responses[r]: the responses sent for request r, in order
    logs,      \* logs[r]: the log records request r has written, in order
    scratch,   \* the files of temp_uploads: path -> bytes
    outputs,   \* the paths of the files the pipeline has written
    issued     \* how many uuids uuid.uuid4() has handed out

vars == <<pc, upload, pos, exc, temp_path, output, trace, calls, responses,
          logs, scratch, outputs, issued>>

\* The directories that exist: os.makedirs(TEMP_UPLOAD_DIR, exist_ok=True)
Directories == { TEMP_UPLOAD_DIR }

\* uuid.uuid4() is taken never to repeat a value: the n-th call returns the
\* n-th token of the pool.
UuidPool == <<"uuid-1", "uuid-2", "uuid-3", "uuid-4", "uuid-5", "uuid-6">>

uuid4(n) == UuidPool[n + 1]

\* The temporary name taken from the client's filename alone.
TempFilenameFromUpload(u, fn) == fn

\* f"{uuid.uuid4()}.{ext}"
TempFilename(u, fn) == <<u>> \o <<".">> \o LastSegment(fn, ".")

\* The download name without its prefix.
DownloadNameBare(fn) == fn

\* f"upscaled_{file.filename}"
DownloadName(fn) == <<"u","p","s","c","a","l","e","d","_">> \o fn

LogRecord(level, text, arg) == [level |-> level, text |-> text, arg |-> arg]

Init ==
    /\ pc = [r \in Requests |-> "idle"]
    /\ upload = [r \in Requests |-> NoUpload]
    /\ pos = [r \in Requests |-> 0]
    /\ exc = [r \in Requests |-> NoExc]
    /\ temp_path = [r \in Requests |-> <<>>]
    /\ output = [r \in Requests |-> <<>>]
    /\ trace = [r \in Requests |-> <<>>]
    /\ calls = [r \in Requests |-> <<>>]
    /\ responses = [r \in Requests |-> <<>>]
    /\ logs = [r \in Requests |-> <<>>]
    /\ scratch = <<>>
    /\ outputs = {}
    /\ issued = 0

------------------------------------------------------------------------------
\* The handler upscale_image, stage by stage

\* A client posts an upload; the framework calls upscale_image(file).
Receive(r) ==
    /\ pc[r] = "idle"
    /\ \E u \in Uploads :
        /\ upload' = [upload EXCEPT ![r] = u]
        /\ pos' = [pos EXCEPT ![r] = u.pos]
    /\ pc' = [pc EXCEPT ![r] = "received"]
    /\ UNCHANGED <<exc, temp_path, output, trace, calls, responses, logs,
                   scratch, outputs, issued>>

\* A handler that goes on to save the upload whatever validation raised.
ValidateAndGoOn(r) ==
    /\ pc[r] = "received"
    /\ LET v == validate_image_file(upload[r], pos[r])
       IN  /\ pos' = [pos EXCEPT ![r] = v.pos]
           /\ exc' = [exc EXCEPT ![r] = NoExc]
           /\ pc' = [pc EXCEPT ![r] = "validated"]
    /\ trace' = [trace EXCEPT ![r] = Append(@, "validate")]
    /\ UNCHANGED <<upload, temp_path, output, calls, responses, logs,
                   scratch, outputs, issued>>

\* validate_image_file(file)
Validate(r) ==
    /\ pc[r] = "received"
    /\ LET v == validate_image_file(upload[r], pos[r])
       IN  /\ pos' = [pos EXCEPT ![r] = v.pos]
           /\ exc' = [exc EXCEPT ![r] = v.exc]
           /\ pc' = [pc EXCEPT ![r] = IF v.exc = NoExc THEN "validated" ELSE "raised"]
    /\ trace' = [trace EXCEPT ![r] = Append(@, "validate")]
    /\ UNCHANGED <<upload, temp_path, output, calls, responses, logs,
                   scratch, outputs, issued>>

\* ext = file.filename.split('.')[-1]; temp_filename = f"{uuid.uuid4()}.{ext}";
\* temp_path = os.path.join(TEMP_UPLOAD_DIR, temp_filename)
DeriveName(r) ==
    /\ pc[r] = "validated"
    /\ trace' = [trace EXCEPT ![r] = Append(@, "name")]
    /\ IF upload[r].filename = None
       THEN /\ exc' = [exc EXCEPT ![r] =
                         PyException("AttributeError",
                                     "'NoneType' object has no attribute 'split'")]
            /\ pc' = [pc EXCEPT ![r] = "raised"]
            /\ UNCHANGED <<temp_path, issued>>
       ELSE /\ temp_path' = [temp_path EXCEPT ![r] =
                 PathJoin(TEMP_UPLOAD_DIR, TempFilename(uuid4(issued), upload[r].filename))]
            /\ issued' = issued + 1
            /\ pc' = [pc EXCEPT ![r] = "named"]
            /\ UNCHANGED exc
    /\ UNCHANGED <<upload, pos, output, calls, responses, logs, scratch, outputs>>

\* with open(temp_path, "wb") as buffer: shutil.copyfileobj(file.file, buffer);
\* logging.info(...)
SaveUpload(r) ==
    /\ pc[r] = "named"
    /\ trace' = [trace EXCEPT ![r] = Append(@, "save")]
    /\ IF Dirname(temp_path[r]) \in Directories
       THEN /\ scratch' = (temp_path[r] :> CopyFileObj(upload[r].body, pos[r])) @@ scratch
            /\ pos' = [pos EXCEPT ![r] = BodySize(upload[r].body)]
            /\ logs' = [logs EXCEPT ![r] =
                 Append(@, LogRecord("INFO", "Image received and saved to: ", temp_path[r]))]
            /\ pc' = [pc EXCEPT ![r] = "saved"]
            /\ UNCHANGED exc
       ELSE /\ exc' = [exc EXCEPT ![r] =
                         PyException("FileNotFoundError", "No such file or directory")]
            /\ pc' = [pc EXCEPT ![r] = "raised"]
            /\ UNCHANGED <<scratch, pos, logs>>
    /\ UNCHANGED <<upload, temp_path, output, calls, responses, outputs, issued>>

\* os.path.basename(p)
Basename(p) == LastSegment(p, "/")

\* The directory the pipeline writes its results to (ConfigEntity.output_dir).
OUTPUT_DIR == <<"upscaled_outputs">>

\* What a call of initialte_upscaler_pipeline(path) can do: return the path of
\* a file it wrote, return a path at which there is no file, or raise.
PipelineOutcomes(path) ==
    { [kind |-> "written", path |-> PathJoin(OUTPUT_DIR, Basename(path)), exc |-> NoExc],
      [kind |-> "missing", path |-> PathJoin(OUTPUT_DIR, Basename(path)), exc |-> NoExc],
      [kind |-> "raises",  path |-> <<>>,
       exc |-> PyException("CustomException", "Error occurred in upscaler pipeline")],
      [kind |-> "raises",  path |-> <<>>,
       exc |-> HTTPException(503, "Model not available")] }

\* output_path = initialte_upscaler_pipeline(temp_path)
RunPipeline(r) ==
    /\ pc[r] = "saved"
    /\ trace' = [trace EXCEPT ![r] = Append(@, "pipeline")]
    /\ calls' = [calls EXCEPT ![r] = Append(@, temp_path[r])]
    /\ \E o \in PipelineOutcomes(temp_path[r]) :
        /\ output' = [output EXCEPT ![r] = o.path]
        /\ exc' = [exc EXCEPT ![r] = o.exc]
        /\ outputs' = IF o.kind = "written" THEN outputs \cup {o.path} ELSE outputs
        /\ pc' = [pc EXCEPT ![r] = IF o.kind = "raises" THEN "raised" ELSE "piped"]
    /\ UNCHANGED <<upload, pos, temp_path, responses, logs, scratch, issued>>

\* os.path.exists(output_path)
PathExists(path) == path \in outputs

\* A handler that removes the saved upload once the result is ready.
RespondAndCleanUp(r) ==
    /\ pc[r] = "piped"
    /\ trace' = [trace EXCEPT ![r] = Append(@, "respond")]
    /\ scratch' = [p \in DOMAIN scratch \ {temp_path[r]} |-> scratch[p]]
    /\ IF ~PathExists(output[r])
       THEN /\ exc' = [exc EXCEPT ![r] = HTTPException(500, MissingOutputDetail)]
            /\ pc' = [pc EXCEPT ![r] = "raised"]
            /\ UNCHANGED <<logs, responses>>
       ELSE /\ logs' = [logs EXCEPT ![r] =
                 Append(@, LogRecord("INFO", "Upscaled image ready at: ", output[r]))]
            /\ responses' = [responses EXCEPT ![r] =
                 Append(@, FileResponse(output[r], "image/jpeg",
                                        DownloadName(upload[r].filename)))]
            /\ pc' = [pc EXCEPT ![r] = "done"]
            /\ UNCHANGED exc
    /\ UNCHANGED <<upload, pos, temp_path, output, calls, outputs, issued>>

\* if not os.path.exists(output_path): raise HTTPException(500, ...)
\* logging.info(...); return FileResponse(output_path, media_type="image/jpeg",
\*                                        filename=f"upscaled_{file.filename}")
Respond(r) ==
    /\ pc[r] = "piped"
    /\ trace' = [trace EXCEPT ![r] = Append(@, "respond")]
    /\ IF ~PathExists(output[r])
       THEN /\ exc' = [exc EXCEPT ![r] = HTTPException(500, MissingOutputDetail)]
            /\ pc' = [pc EXCEPT ![r] = "raised"]
            /\ UNCHANGED <<logs, responses>>
       ELSE /\ logs' = [logs EXCEPT ![r] =
                 Append(@, LogRecord("INFO", "Upscaled image ready at: ", output[r]))]
            /\ responses' = [responses EXCEPT ![r] =
                 Append(@, FileResponse(output[r], "image/jpeg",
                                        DownloadName(upload[r].filename)))]
            /\ pc' = [pc EXCEPT ![r] = "done"]
            /\ UNCHANGED exc
    /\ UNCHANGED <<upload, pos, temp_path, output, calls, scratch, outputs, issued>>

------------------------------------------------------------------------------
\* The except clauses of upscale_image

\* A handler with the single clause "except Exception": no exception is re-raised.
CaughtByGenericClause(e) == FALSE

\* except HTTPException as http_err: the clause that takes exception e
CaughtAsHTTP(e) == IsHTTPException(e)

\* raise http_err
Reraised(e) == e

\* The leaking variant: raise HTTPException(status_code=500, detail=str(e))
InternalErrorWithText(e) == HTTPException(500, e.detail)

\* raise HTTPException(status_code=500, detail="Internal server error")
InternalError(e) == HTTPException(500, InternalErrorDetail)

\* logging.error(f"API error during image upscaling: {e}")
ErrorLog(e) == LogRecord("ERROR", "API error during image upscaling: ", <<e.detail>>)

\* except HTTPException as http_err: raise http_err
ExceptHTTP(r) ==
    /\ pc[r] = "raised"
    /\ CaughtAsHTTP(exc[r])
    /\ responses' = [responses EXCEPT ![r] = Append(@, ErrorResponse(Reraised(exc[r])))]
    /\ pc' = [pc EXCEPT ![r] = "done"]
    /\ UNCHANGED <<upload, pos, exc, temp_path, output, trace, calls, logs,
                   scratch, outputs, issued>>

\* An except clause that does not log what it caught.
ExceptWithoutLog(r) ==
    /\ pc[r] = "raised"
    /\ ~CaughtAsHTTP(exc[r])
    /\ pc' = [pc EXCEPT ![r] = "logged"]
    /\ UNCHANGED <<upload, pos, exc, temp_path, output, trace, calls, responses,
                   logs, scratch, outputs, issued>>

\* except Exception as e: logging.error(...)
ExceptLog(r) ==
    /\ pc[r] = "raised"
    /\ ~CaughtAsHTTP(exc[r])
    /\ logs' = [logs EXCEPT ![r] = Append(@, ErrorLog(exc[r]))]
    /\ pc' = [pc EXCEPT ![r] = "logged"]
    /\ UNCHANGED <<upload, pos, exc, temp_path, output, trace, calls, responses,
                   scratch, outputs, issued>>

\* except Exception as e: ...; raise HTTPException(500, "Internal server error")
ExceptInternal(r) ==
    /\ pc[r] = "logged"
    /\ responses' = [responses EXCEPT ![r] = Append(@, ErrorResponse(InternalError(exc[r])))]
    /\ pc' = [pc EXCEPT ![r] = "done"]
    /\ UNCHANGED <<upload, pos, exc, temp_path, output, trace, calls, logs,
                   scratch, outputs, issued>>

------------------------------------------------------------------------------

Next ==
    \E r \in Requests :
        \/ Receive(r)
        \/ Validate(r)
        \/ DeriveName(r)
        \/ SaveUpload(r)
        \/ RunPipeline(r)
        \/ Respond(r)
        \/ ExceptHTTP(r)
        \/ ExceptLog(r)
        \/ ExceptInternal(r)

Spec == Init /\ [][Next]_vars

------------------------------------------------------------------------------
\* Vocabulary of the properties

Ceiling == 20 * 1024 * 1024

Size(r) == BodySize(upload[r].body)

Arrived(r) == pc[r] # "idle"

Done(r) == pc[r] = "done"

\* The declared types of the uploads that, lower-cased, are one of the four
\* image types.
AllowedDeclaredTypes ==
    { u.content_type : u \in
        { v \in Uploads :
            /\ v.content_type # None
            /\ v.content_type # <<>>
            /\ Lower(v.content_type) \in
                  { <<"i","m","a","g","e","/","j","p","e","g">>,
                    <<"i","m","a","g","e","/","p","n","g">>,
                    <<"i","m","a","g","e","/","j","p","g">>,
                    <<"i","m","a","g","e","/","w","e","b","p">> } } }

DeclaredTypeAllowed(ct) == ct \in AllowedDeclaredTypes

Statuses(r) == { responses[r][i].status : i \in 1..Len(responses[r]) }

Stages(r) == { trace[r][i] : i \in 1..Len(trace[r]) }

LogSet(r) == { logs[r][i] : i \in 1..Len(logs[r]) }

\* validate_image_file raised for request r.
ValidationRaised(r) == trace[r] = <<"validate">> /\ pc[r] \in {"raised", "done"}

\* validate_image_file returned normally for request r.
ValidationPassed(r) == "validate" \in Stages(r) /\ ~ValidationRaised(r)

\* The handler has written request r's upload to temp_uploads.
Persisted(r) ==
    LogRecord("INFO", "Image received and saved to: ", temp_path[r]) \in LogSet(r)

\* The pipeline call of request r returned a path / raised.
PipelineReturned(r) == "pipeline" \in Stages(r) /\ output[r] # <<>>

PipelineRaised(r) == "pipeline" \in Stages(r) /\ output[r] = <<>>

ErrorLogged(r) ==
    \E i \in 1..Len(logs[r]) : logs[r][i].level = "ERROR" /\ logs[r][i].arg = <<exc[r].detail>>

------------------------------------------------------------------------------
\* C1: an upload whose declared content type is missing, empty or, lower-cased,
\* outside the allow-list never gets past validation, whatever its size and
\* filename, and the one response it gets has status 400.
C1_DisallowedTypeGets400 ==
    \A r \in Requests :
        (Arrived(r) /\ ~DeclaredTypeAllowed(upload[r].content_type)) =>
            /\ pc[r] \in {"received", "raised", "done"}
            /\ Statuses(r) \subseteq {400}
            /\ Done(r) => Statuses(r) = {400}

\* C1 witness: an empty declared type on an oversized upload without filename,
\* and an image/gif upload, both answered with 400.
C1_Witness ==
    /\ \E r \in Requests :
        /\ Done(r) /\ upload[r].content_type = <<>> /\ upload[r].filename = None
        /\ Size(r) > Ceiling /\ Statuses(r) = {400}
    /\ \E r \in Requests :
        Done(r) /\ upload[r].content_type = CT_gif /\ Statuses(r) = {400}

\* C2: an upload longer than 20 * 1024 * 1024 bytes is answered with 400, and
\* for an allowed content type validate_image_file raises the size error
\* exactly when the length is strictly greater than the ceiling.
C2_OversizeGets400 ==
    \A r \in Requests :
        /\ (Arrived(r) /\ Size(r) > Ceiling) =>
              /\ pc[r] \in {"received", "raised", "done"}
              /\ Done(r) => Statuses(r) = {400}
        /\ ("validate" \in Stages(r) /\ DeclaredTypeAllowed(upload[r].content_type)) =>
              /\ (ValidationRaised(r) /\ exc[r] = HTTPException(400, SizeErrorDetail))
                    <=> Size(r) > Ceiling
              /\ ValidationPassed(r) <=> Size(r) <= Ceiling

\* C2 witness: an upload of exactly the ceiling has passed validation while an
\* upload one byte longer, of an allowed type, has been answered with 400.
C2_Witness ==
    /\ \E r \in Requests :
        Size(r) = Ceiling /\ ValidationPassed(r) /\ Persisted(r)
    /\ \E r \in Requests :
        /\ Size(r) = Ceiling + 1 /\ DeclaredTypeAllowed(upload[r].content_type)
        /\ Done(r) /\ Statuses(r) = {400}

------------------------------------------------------------------------------

\* The success response for request r: status 200, media type image/jpeg and
\* the download name upscaled_<original filename>.
IsSuccessResponse(r, resp) ==
    /\ resp.status = 200
    /\ resp.media_type = "image/jpeg"
    /\ resp.filename = <<"u","p","s","c","a","l","e","d","_">> \o upload[r].filename
    /\ resp.path = output[r]

\* C3 as stated: every upload with an allowed content type and a size under the
\* ceiling is answered with the 200 file response.
C3_ValidUploadAlwaysGets200 ==
    \A r \in Requests :
        (Done(r) /\ DeclaredTypeAllowed(upload[r].content_type) /\ Size(r) < Ceiling) =>
            /\ Len(responses[r]) = 1
            /\ IsSuccessResponse(r, responses[r][1])

\* C3 amended: an upload with an allowed content type and a size under the
\* ceiling that was saved to temp_uploads and for which the pipeline returned a
\* path at which a file exists is answered with the 200 file response, media
\* type image/jpeg, download name upscaled_<original filename>.
C3_ValidUploadWithOutputGets200 ==
    \A r \in Requests :
        (/\ DeclaredTypeAllowed(upload[r].content_type) /\ Size(r) < Ceiling
         /\ Persisted(r) /\ PipelineReturned(r) /\ output[r] \in outputs) =>
            /\ pc[r] \in {"piped", "done"}
            /\ Done(r) => /\ Len(responses[r]) = 1
                          /\ IsSuccessResponse(r, responses[r][1])

\* C3 witness: a valid upload under the ceiling answered with 200 and the
\* download name upscaled_a.png.
C3_Witness ==
    \E r \in Requests :
        /\ Done(r) /\ Size(r) < Ceiling /\ upload[r].filename = FN_png
        /\ output[r] \in outputs
        /\ responses[r][1].status = 200
        /\ responses[r][1].filename =
              <<"u","p","s","c","a","l","e","d","_","a",".","p","n","g">>

\* C4: when the pipeline returns a path at which no file exists, the request
\* raises HTTPException(500, 'Upscaling failed: output file not found.'), the
\* response carries that status and detail unchanged, and no 200 is sent.
C4_MissingOutputGets500 ==
    \A r \in Requests :
        (PipelineReturned(r) /\ output[r] \notin outputs) =>
            /\ pc[r] \in {"piped", "raised", "done"}
            /\ 200 \notin Statuses(r)
            /\ pc[r] = "raised" => exc[r] = HTTPException(500, MissingOutputDetail)
            /\ Done(r) => /\ Len(responses[r]) = 1
                          /\ responses[r][1].status = 500
                          /\ responses[r][1].detail = "Upscaling failed: output file not found."

\* C4 witness: a request whose pipeline returned a missing path has been
\* answered with the 500 of the existence check.
C4_Witness ==
    \E r \in Requests :
        /\ Done(r) /\ PipelineReturned(r) /\ output[r] \notin outputs
        /\ responses[r][1].detail = MissingOutputDetail

\* C5 as stated: whatever exception the pipeline raises, the response has
\* status 500 and the handler has logged the error.
C5_AnyPipelineExceptionGets500 ==
    \A r \in Requests :
        (PipelineRaised(r) /\ Done(r)) => (Statuses(r) = {500} /\ ErrorLogged(r))

\* A step that produces request r's response.
RespondsNow(r) == responses[r] = <<>> /\ responses'[r] # <<>>

\* C5 amended: when the pipeline raises an exception that is not an
\* HTTPException, the response has status 500 and the handler logged the error
\* before the response was produced.
C5_PipelineExceptionGets500 ==
    /\ [](\A r \in Requests :
            (PipelineRaised(r) /\ ~IsHTTPException(exc[r])) =>
                /\ pc[r] \in {"raised", "logged", "done"}
                /\ Statuses(r) \subseteq {500}
                /\ Done(r) => (Statuses(r) = {500} /\ ErrorLogged(r)))
    /\ [][\A r \in Requests :
            (PipelineRaised(r) /\ ~IsHTTPException(exc[r]) /\ RespondsNow(r)) =>
                ErrorLogged(r)]_vars

\* C5 witness: a pipeline CustomException answered with 500 after being logged.
C5_Witness ==
    \E r \in Requests :
        /\ Done(r) /\ PipelineRaised(r) /\ exc[r].type = "CustomException"
        /\ Statuses(r) = {500} /\ ErrorLogged(r)

------------------------------------------------------------------------------

\* C6: no two requests are given the same path in temp_uploads, also when they
\* carry the same filename and interleave: a request's saved file is at its
\* own path, and the pipeline of a request is passed that request's path only.
C6_TempPathsNeverCollide ==
    \A r1 \in Requests :
        /\ \A r2 \in Requests \ {r1} :
              (temp_path[r1] # <<>> /\ temp_path[r2] # <<>>) =>
                  /\ temp_path[r1] # temp_path[r2]
                  /\ \A i \in 1..Len(calls[r2]) : calls[r2][i] # temp_path[r1]
        /\ Persisted(r1) => temp_path[r1] \in DOMAIN scratch
        /\ \A i \in 1..Len(calls[r1]) : calls[r1][i] = temp_path[r1]
        /\ Cardinality(DOMAIN scratch) = Cardinality({ r \in Requests : Persisted(r) })

\* C6 witness: two requests with the same filename a.png, both saved, each at
\* its own path, both passed on to the pipeline.
C6_Witness ==
    \E r1, r2 \in Requests :
        /\ r1 # r2
        /\ upload[r1].filename = FN_png /\ upload[r2].filename = FN_png
        /\ Persisted(r1) /\ Persisted(r2)
        /\ temp_path[r1] # temp_path[r2]
        /\ calls[r1] # <<>> /\ calls[r2] # <<>>

\* C7: when validate_image_file has returned normally the read cursor is at 0,
\* wherever it was on entry, and the file the handler then saves holds all the
\* bytes of the upload.
C7_CursorRestoredAndFullCopy ==
    \A r \in Requests :
        /\ pc[r] \in {"validated", "named"} => pos[r] = 0
        /\ Persisted(r) =>
              /\ temp_path[r] \in DOMAIN scratch
              /\ scratch[temp_path[r]] =
                    [body |-> upload[r].body, from |-> 0, to |-> Size(r)]

\* C7 witness: an upload whose cursor was at the end on entry has been saved
\* in full.
C7_Witness ==
    \E r \in Requests :
        /\ upload[r].pos = Size(r) /\ upload[r].pos > 0
        /\ Persisted(r)
        /\ scratch[temp_path[r]].from = 0 /\ scratch[temp_path[r]].to = Size(r)

\* C8: the files of temp_uploads only grow: no step removes or rewrites one,
\* every request that was persisted added exactly one file, and that file is
\* still there when the request has ended, with a 200 or with a 500.
C8_ScratchOnlyGrows ==
    /\ [][\A p \in DOMAIN scratch : p \in DOMAIN scratch' /\ scratch'[p] = scratch[p]]_vars
    /\ [][\A r \in Requests :
            (~Persisted(r) /\ Persisted(r)') =>
                Cardinality(DOMAIN scratch') = Cardinality(DOMAIN scratch) + 1]_vars
    /\ [](\A r \in Requests :
            /\ Persisted(r) => temp_path[r] \in DOMAIN scratch
            /\ Cardinality(DOMAIN scratch) = Cardinality({ q \in Requests : Persisted(q) }))

\* C8 witness: one request ended with 200 and one with 500, and the saved
\* uploads of both are in temp_uploads.
C8_Witness ==
    \E r1, r2 \in Requests :
        /\ Done(r1) /\ Done(r2) /\ Persisted(r1) /\ Persisted(r2)
        /\ Statuses(r1) = {200} /\ Statuses(r2) = {500}
        /\ {temp_path[r1], temp_path[r2]} \subseteq DOMAIN scratch
        /\ Cardinality(DOMAIN scratch) = 2

HandlerStages == <<"validate", "name", "save", "pipeline", "respond">>

\* C9: a request runs its stages once each, in the order validate, name, save,
\* pipeline, respond, and stops at the first exception; the pipeline is called
\* at most once, after validation passed and the upload was saved; a request
\* that validation rejected saves nothing and calls no pipeline; a request has
\* no response until it ends and exactly one when it has ended.
C9_LinearPass ==
    \A r \in Requests :
        /\ Len(trace[r]) <= Len(HandlerStages)
        /\ trace[r] = SubSeq(HandlerStages, 1, Len(trace[r]))
        /\ Len(calls[r]) <= 1
        /\ calls[r] # <<>> =>
              /\ ValidationPassed(r)
              /\ Persisted(r)
              /\ calls[r][1] \in DOMAIN scratch
        /\ (ValidationRaised(r)
               \/ (Arrived(r) /\ ~DeclaredTypeAllowed(upload[r].content_type))
               \/ (Arrived(r) /\ Size(r) > Ceiling)) =>
              /\ temp_path[r] = <<>>
              /\ ~Persisted(r)
              /\ calls[r] = <<>>
              /\ Done(r) => Statuses(r) = {400}
        /\ pc[r] \in {"raised", "logged"} => exc[r] # NoExc
        /\ Len(responses[r]) = (IF Done(r) THEN 1 ELSE 0)

\* C9 witness: one request ran all five stages and another was rejected by
\* validation; both have ended.
C9_Witness ==
    \E r1, r2 \in Requests :
        /\ Done(r1) /\ trace[r1] = HandlerStages /\ Len(calls[r1]) = 1
        /\ Done(r2) /\ ValidationRaised(r2) /\ Statuses(r2) = {400}

\* Request r failed with an exception that is not an HTTPException.
FailedInternally(r) == Done(r) /\ exc[r] # NoExc /\ ~IsHTTPException(exc[r])

\* C10: two requests that failed with exceptions other than HTTPException get
\* the same response, status 500 with detail 'Internal server error'; the
\* exception text is in the log and not in the response.
C10_InternalErrorsLookAlike ==
    \A r1, r2 \in Requests :
        (FailedInternally(r1) /\ FailedInternally(r2)) =>
            /\ responses[r1] = responses[r2]
            /\ Len(responses[r1]) = 1
            /\ responses[r1][1].status = 500
            /\ responses[r1][1].detail = "Internal server error"
            /\ responses[r1][1].detail # exc[r1].detail
            /\ ErrorLogged(r1)

\* C10 witness: two requests failed with exceptions of different types and
\* texts, and were answered alike.
C10_Witness ==
    \E r1, r2 \in Requests :
        /\ FailedInternally(r1) /\ FailedInternally(r2)
        /\ exc[r1].type = "AttributeError" /\ exc[r2].type = "CustomException"
        /\ exc[r1].detail # exc[r2].detail
        /\ responses[r1] = responses[r2]

====
